---- MODULE Spec2Model ----
(***************************************************************************)
(* State-machine model of the CRM front end: the dashboard widget-layout  *)
(* packer (compactLayoutsUtil), the dashboard "customize mode" state, the  *)
(* profile section's debounced autosave and avatar handlers, and the lead  *)
(* status filter.                                                          *)
(***************************************************************************)
EXTENDS Integers, Sequences, FiniteSets, Bags, TLC

(***************************************************************************)
(* Program constants                                                       *)
(***************************************************************************)
GRID_COLS == 12

\* for (let y = 0; y < 100 && !placed; y++)
SCAN_ROWS == 100

\* const fallbackY = Object.keys(compacted).length * 2
FALLBACK_STRIDE == 2

\* the widget keys of DEFAULT_WIDGETS (imported from DashboardCustomizeModal),
\* with their default visibility
DEFAULT_WIDGETS ==
  << [key |-> "leads", visible |-> TRUE],
     [key |-> "contacts", visible |-> TRUE],
     [key |-> "deals", visible |-> FALSE] >>

defaultWidgetKeys == [i \in 1..Len(DEFAULT_WIDGETS) |-> DEFAULT_WIDGETS[i].key]

WidgetKey == {DEFAULT_WIDGETS[i].key : i \in 1..Len(DEFAULT_WIDGETS)}

(***************************************************************************)
(* Bounds of the model                                                     *)
(***************************************************************************)
\* input rows of the packer are drawn from 0..MaxY
MaxY == 1

\* input columns of the packer: the left edge and the middle of the grid
XVals == {0, GRID_COLS \div 2}

\* <<w, h>> sizes the packer's inputs are drawn from: a small widget (two fit
\* beside each other, one fits beside the tall one), a widget as tall as the
\* scanned rows, and a widget wider than the grid
SizeVals == {<<5, 1>>, <<7, SCAN_ROWS>>, <<GRID_COLS + 1, 1>>}

(***************************************************************************)
(* Generic helpers                                                         *)
(***************************************************************************)
Range(s) == {s[i] : i \in 1..Len(s)}

NoDup(s) == \A i, j \in 1..Len(s) : s[i] = s[j] => i = j

\* s.filter(k => Keep[k]) for a set of kept elements
RECURSIVE FilterSeq(_, _)
FilterSeq(s, keep) ==
  IF s = <<>> THEN <<>>
  ELSE IF Head(s) \in keep THEN <<Head(s)>> \o FilterSeq(Tail(s), keep)
  ELSE FilterSeq(Tail(s), keep)

\* all duplicate-free sequences over a set
RECURSIVE SeqsNoDup(_)
SeqsNoDup(S) ==
  IF S = {} THEN {<<>>}
  ELSE {<<>>} \cup UNION {{<<k>> \o t : t \in SeqsNoDup(S \ {k})} : k \in S}

(***************************************************************************)
(* compactLayoutsUtil                                                      *)
(***************************************************************************)
\* a WidgetLayoutConfig is a function from a subset of the keys to
\* records [x, y, w, h]
LayoutRec(x, y, w, h) == [x |-> x, y |-> y, w |-> w, h |-> h]

EmptyLayouts == [k \in {} |-> LayoutRec(0, 0, 1, 1)]

\* obj[key] = value on a copy
PutLayout(layouts, key, value) ==
  [k \in DOMAIN layouts \cup {key} |-> IF k = key THEN value ELSE layouts[k]]

\* delete obj[key] on a copy
DeleteLayout(layouts, key) == [k \in DOMAIN layouts \ {key} |-> layouts[k]]

\* mutant: the comparator with x and y exchanged
ItemBeforeXFirst(a, b) == a.x < b.x \/ (a.x = b.x /\ a.y < b.y)

\* the comparator (a, b) => a.y - b.y || a.x - b.x is negative
ItemBefore(a, b) == a.y < b.y \/ (a.y = b.y /\ a.x < b.x)

\* Array.prototype.sort is stable: an item goes behind every item that does
\* not compare greater than it
RECURSIVE InsertItem(_, _)
InsertItem(sorted, item) ==
  IF sorted = <<>> THEN <<item>>
  ELSE IF ItemBefore(item, Head(sorted)) THEN <<item>> \o sorted
  ELSE <<Head(sorted)>> \o InsertItem(Tail(sorted), item)

RECURSIVE SortItems(_)
SortItems(items) ==
  IF items = <<>> THEN <<>>
  ELSE InsertItem(SortItems(SubSeq(items, 1, Len(items) - 1)), items[Len(items)])

\* visibleKeys.filter(key => layouts[key]).map(key => ({key, ...layouts[key]})).sort(...)
SortedItems(layouts, visibleKeys) ==
  LET kept == FilterSeq(visibleKeys, DOMAIN layouts)
      mapped == [i \in 1..Len(kept) |->
                   [key |-> kept[i], x |-> layouts[kept[i]].x, y |-> layouts[kept[i]].y,
                    w |-> layouts[kept[i]].w, h |-> layouts[kept[i]].h]]
  IN SortItems(mapped)

\* the grid maps each row that has been created to the set of its columns
\* that hold true; a row that was never created reads as undefined (falsy)
GridCell(grid, row, col) == row \in DOMAIN grid /\ col \in grid[row]

canPlace(grid, x, y, w, h) ==
  /\ ~(x < 0 \/ x + w > GRID_COLS)
  /\ \A dy \in 0..(h - 1) : \A dx \in 0..(w - 1) : ~GridCell(grid, y + dy, x + dx)

\* mutant: the inner loop runs to dx <= w
occupyOneMore(grid, x, y, w, h) ==
  [row \in DOMAIN grid \cup y..(y + h - 1) |->
     IF row \in y..(y + h - 1)
     THEN (IF row \in DOMAIN grid THEN grid[row] ELSE {}) \cup x..(x + w)
     ELSE grid[row]]

occupy(grid, x, y, w, h) ==
  [row \in DOMAIN grid \cup y..(y + h - 1) |->
     IF row \in y..(y + h - 1)
     THEN (IF row \in DOMAIN grid THEN grid[row] ELSE {}) \cup x..(x + w - 1)
     ELSE grid[row]]

EmptyGrid == [row \in {} |-> {}]

\* mutant: the inner loop visits every column and tests the cells only
RECURSIVE ScanColsEveryColumn(_, _, _, _, _)
ScanColsEveryColumn(grid, w, h, y, x) ==
  IF x > GRID_COLS - 1 THEN -1
  ELSE IF \A dy \in 0..(h - 1) : \A dx \in 0..(w - 1) : ~GridCell(grid, y + dy, x + dx)
       THEN x
  ELSE ScanColsEveryColumn(grid, w, h, y, x + 1)

\* inner loop: for (let x = 0; x <= GRID_COLS - item.w && !placed; x++);
\* -1 when the row has no free position
RECURSIVE ScanCols(_, _, _, _, _)
ScanCols(grid, w, h, y, x) ==
  IF x > GRID_COLS - w THEN -1
  ELSE IF canPlace(grid, x, y, w, h) THEN x
  ELSE ScanCols(grid, w, h, y, x + 1)

\* outer loop: for (let y = 0; y < 100 && !placed; y++): the first row whose
\* inner loop places the item, with the column found there; <<-1, -1>> when
\* placed stays false
ScanGrid(grid, w, h) ==
  LET RowPlaces(y) == ScanCols(grid, w, h, y, 0) >= 0
  IN IF \E y \in 0..(SCAN_ROWS - 1) : RowPlaces(y)
     THEN LET y == CHOOSE r \in 0..(SCAN_ROWS - 1) :
                     RowPlaces(r) /\ \A q \in 0..(r - 1) : ~RowPlaces(q)
          IN <<ScanCols(grid, w, h, y, 0), y>>
     ELSE <<-1, -1>>

\* the body of items.forEach: st = [compacted, grid]
PlaceItem(st, item) ==
  LET pos == ScanGrid(st.grid, item.w, item.h)
  IN IF pos[1] >= 0
     THEN [compacted |-> PutLayout(st.compacted, item.key,
                                   LayoutRec(pos[1], pos[2], item.w, item.h)),
           grid |-> occupy(st.grid, pos[1], pos[2], item.w, item.h)]
     ELSE LET fallbackY == Cardinality(DOMAIN st.compacted) * FALLBACK_STRIDE
          IN [compacted |-> PutLayout(st.compacted, item.key,
                                      LayoutRec(0, fallbackY, item.w, item.h)),
              grid |-> occupy(st.grid, 0, fallbackY, item.w, item.h)]

RECURSIVE PlaceItems(_, _)
PlaceItems(st, items) ==
  IF items = <<>> THEN st
  ELSE PlaceItems(PlaceItem(st, Head(items)), Tail(items))

\* mutant: the layouts of hidden widgets are placed too
compactLayoutsUtilUnfiltered(layouts, visibleKeys) ==
  PlaceItems([compacted |-> EmptyLayouts, grid |-> EmptyGrid],
             SortedItems(layouts, defaultWidgetKeys)).compacted

compactLayoutsUtil(layouts, visibleKeys) ==
  PlaceItems([compacted |-> EmptyLayouts, grid |-> EmptyGrid],
             SortedItems(layouts, visibleKeys)).compacted

(***************************************************************************)
(* State                                                                   *)
(***************************************************************************)
VARIABLES
  \* the packer applied to drawn inputs
  argLayouts, argVisibleKeys, compacted, packerPc,
  \* UserDashboard: useAuth's user id ("" when signed out), component state,
  \* the dashboard-prefs query (its data, whether a fetch is in flight), the
  \* save mutation (the variables of the request in flight), the backend's
  \* dashboard_preferences row, the toast shown by the last event
  user, isResizeMode, pendingWidgetChanges, originalState,
  visibleWidgets, widgetOrder, widgetLayouts,
  dashboardPrefs, prefsFetching, saveInFlight, dbRow, toast,
  \* history: the state at the most recent Enter, the number of Save clicks,
  \* of layout changes and of pending-widget toggles
  atEnter, saveCount, dragCount, toggleCount

\* ProfileSection: props, refs and state; the timers it has started; the
\* bags of its requests under way, to user_preferences and for the avatar;
\* the user_preferences row of the backend
VARIABLES
  userId, displayPrefs, lastSavedRef, saveTimeoutRef, effectCleanup, mounted,
  timers, requests, avatarRequests, backendPrefs, profileAvatarUrl, removingAvatar,
  profileToast,
  \* history: the number of displayPrefs changes, of upserts sent and of
  \* avatar operations, whether a change to an unsaved value has not yet
  \* been followed by an upsert, and whether the backend has returned an
  \* error to a request
  changeCount, upsertCount, avatarOps, unsentChange, requestFailed

\* LeadStatusFilter: the values received through the value prop, latest last
VARIABLES filterValues

\* UserDashboard: the path of the navigate call made from the dashboard, if
\* any, and the modal that is open, if any
VARIABLES navigatedTo, openModal

packerVars == <<argLayouts, argVisibleKeys, compacted, packerPc>>

profileVars ==
  <<requestFailed, userId, displayPrefs, lastSavedRef, saveTimeoutRef, effectCleanup, mounted,
    timers, requests, avatarRequests, backendPrefs, profileAvatarUrl, removingAvatar,
    profileToast, changeCount, upsertCount, avatarOps, unsentChange>>

filterVars == <<filterValues>>

clickVars == <<navigatedTo, openModal>>

dashVars ==
  <<user, isResizeMode, pendingWidgetChanges, originalState,
    visibleWidgets, widgetOrder, widgetLayouts,
    dashboardPrefs, prefsFetching, saveInFlight, dbRow, toast,
    atEnter, saveCount, dragCount, toggleCount>>

vars == <<packerVars, dashVars, profileVars, filterVars, clickVars>>

\* a nullable value is a sequence of at most one element
Null == <<>>
Some(v) == <<v>>

\* the components that a specification leaves out stay as constructed
PackerIdle ==
  /\ argLayouts = EmptyLayouts /\ argVisibleKeys = <<>>
  /\ compacted = EmptyLayouts /\ packerPc = "idle"

DashboardIdle ==
  /\ user = "" /\ isResizeMode = FALSE /\ pendingWidgetChanges = <<>>
  /\ originalState = Null /\ visibleWidgets = <<>> /\ widgetOrder = <<>>
  /\ widgetLayouts = EmptyLayouts /\ dashboardPrefs = Null
  /\ prefsFetching = FALSE /\ saveInFlight = Null /\ dbRow = Null
  /\ toast = "" /\ atEnter = Null /\ saveCount = 0 /\ dragCount = 0
  /\ toggleCount = 0

ProfileIdle ==
  /\ userId = "" /\ displayPrefs = <<>> /\ lastSavedRef = <<>> /\ saveTimeoutRef = Null
  /\ effectCleanup = FALSE /\ mounted = FALSE /\ timers = {} /\ requests = EmptyBag /\ avatarRequests = EmptyBag
  /\ backendPrefs = <<>> /\ profileAvatarUrl = "" /\ removingAvatar = FALSE
  /\ profileToast = "" /\ changeCount = 0 /\ upsertCount = 0 /\ avatarOps = 0
  /\ unsentChange = FALSE /\ requestFailed = FALSE

FilterIdle == filterValues = <<>>

ClickIdle == navigatedTo = Null /\ openModal = Null

(***************************************************************************)
(* The packer on inputs drawn from bounded sets                            *)
(***************************************************************************)
InputRecs ==
  {LayoutRec(x, y, s[1], s[2]) : x \in XVals, y \in 0..MaxY, s \in SizeVals}

\* visible key lists: every permutation of all the keys, and the default
\* order with one key dropped
VisibleInputs ==
  {s \in SeqsNoDup(WidgetKey) : Len(s) = Cardinality(WidgetKey)}
    \cup {FilterSeq(defaultWidgetKeys, WidgetKey \ {k}) : k \in WidgetKey}

InputLayouts == UNION {[D -> InputRecs] : D \in SUBSET WidgetKey}

PackerInit ==
  /\ argLayouts \in InputLayouts
  /\ argVisibleKeys \in VisibleInputs
  /\ compacted = EmptyLayouts
  /\ packerPc = "call"
  /\ DashboardIdle
  /\ ProfileIdle
  /\ FilterIdle
  /\ ClickIdle

CallCompact ==
  /\ packerPc = "call"
  /\ compacted' = compactLayoutsUtil(argLayouts, argVisibleKeys)
  /\ packerPc' = "returned"
  /\ UNCHANGED <<argLayouts, argVisibleKeys>>
  /\ UNCHANGED <<dashVars, profileVars, filterVars, clickVars>>

PackerNext == CallCompact

SpecPacker == PackerInit /\ [][PackerNext]_vars

(***************************************************************************)
(* Properties of the packer                                                *)
(***************************************************************************)
\* the rectangles [x, x+w) x [y, y+h) of a and b intersect
Intersect(a, b) ==
  /\ a.x < b.x + b.w /\ b.x < a.x + a.w
  /\ a.y < b.y + b.h /\ b.y < a.y + a.h

\* every input widget has an integer size 1 <= w <= 12, h >= 1
InputSizesOK ==
  \A k \in DOMAIN argLayouts :
    argLayouts[k].w >= 1 /\ argLayouts[k].w <= 12 /\ argLayouts[k].h >= 1

InGrid(r) == r.x >= 0 /\ r.y >= 0 /\ r.x + r.w <= 12

\* widget k of the returned layout, moved by (dx, dy), stays in the grid and
\* overlaps no other widget of the returned layout
CanMove(k, dx, dy) ==
  LET moved == LayoutRec(compacted[k].x + dx, compacted[k].y + dy,
                         compacted[k].w, compacted[k].h)
  IN /\ InGrid(moved)
     /\ \A o \in DOMAIN compacted \ {k} : ~Intersect(moved, compacted[o])

\* C1: for inputs with sizes 1 <= w <= 12, h >= 1 the returned layout holds
\* no two widgets whose rectangles intersect (fallback placements included)
C1_NoOverlap ==
  (packerPc = "returned" /\ InputSizesOK) =>
    \A a, b \in DOMAIN compacted : a # b => ~Intersect(compacted[a], compacted[b])

\* C2: in the returned layout no widget can be moved one row up or one
\* column left without overlapping another widget or leaving the grid
C2_NoGaps ==
  packerPc = "returned" =>
    \A k \in DOMAIN compacted : ~CanMove(k, 0, -1) /\ ~CanMove(k, -1, 0)

\* the input had a gap, three widgets were packed and the packer moved one
C2_Witness ==
  /\ packerPc = "returned"
  /\ InputSizesOK
  /\ Cardinality(DOMAIN compacted) = 3
  /\ \E k \in DOMAIN compacted : compacted[k] # argLayouts[k]
  /\ \E k \in DOMAIN compacted : compacted[k].x > 0

\* the items in processing order, and the rectangles returned for the items
\* processed before the i-th
ProcessedItems == SortedItems(argLayouts, argVisibleKeys)

PlacedBefore(i) == {compacted[ProcessedItems[j].key] : j \in 1..(i - 1)}

FreeAt(placed, x, y, w, h) ==
  \A r \in placed : ~Intersect(LayoutRec(x, y, w, h), r)

\* (x, y) is the first position in row-major order, y in 0..99 and x in
\* 0..12-w, at which the w x h rectangle overlaps nothing in placed
IsFirstFree(placed, x, y, w, h) ==
  /\ y \in 0..99 /\ x \in 0..(12 - w)
  /\ FreeAt(placed, x, y, w, h)
  /\ \A y2 \in 0..y : \A x2 \in 0..(12 - w) :
       (y2 < y \/ x2 < x) => ~FreeAt(placed, x2, y2, w, h)

SomeFree(placed, w, h) ==
  \E y \in 0..99 : \E x \in 0..(12 - w) : FreeAt(placed, x, y, w, h)

\* the processed items are the visible keys that have a layout, each once,
\* in ascending order of input position (y first, then x), sizes unchanged
ProcessedInOrder ==
  /\ {ProcessedItems[i].key : i \in 1..Len(ProcessedItems)}
       = Range(argVisibleKeys) \cap DOMAIN argLayouts
  /\ Len(ProcessedItems) = Cardinality(Range(argVisibleKeys) \cap DOMAIN argLayouts)
  /\ DOMAIN compacted = Range(argVisibleKeys) \cap DOMAIN argLayouts
  /\ \A i \in 1..Len(ProcessedItems) :
       LET it == ProcessedItems[i]
       IN /\ it.x = argLayouts[it.key].x /\ it.y = argLayouts[it.key].y
          /\ compacted[it.key].w = argLayouts[it.key].w
          /\ compacted[it.key].h = argLayouts[it.key].h
  /\ \A i, j \in 1..Len(ProcessedItems) :
       i < j => LET a == argLayouts[ProcessedItems[i].key]
                    b == argLayouts[ProcessedItems[j].key]
                IN a.y < b.y \/ (a.y = b.y /\ a.x <= b.x)

COLS == 12

\* handleSaveLayout: a widget that is added gets w: 3, h: 2
NEW_WIDGET_W == 3
NEW_WIDGET_H == 2

defaultVisibleWidgets ==
  FilterSeq(defaultWidgetKeys,
            {DEFAULT_WIDGETS[i].key : i \in {j \in 1..Len(DEFAULT_WIDGETS) : DEFAULT_WIDGETS[j].visible}})

\* layout_view as stored: absent (null), an object (a json column), a string
\* that holds the JSON text of an object (what JSON.stringify writes), a
\* string that holds other valid JSON, or a string that is not JSON
LayoutView(kind, layouts) == [kind |-> kind, layouts |-> layouts]

JSONstringify(layouts) == LayoutView("jsonObject", layouts)

\* a dashboard_preferences row; visible_widgets and card_order are nullable
PrefsRow(visible, order, view) ==
  [visible_widgets |-> visible, card_order |-> order, layout_view |-> view]

\* mutant: a layout_view that cannot be read loads as a layout of its own
parseWidgetLayoutsFallback(prefs) ==
  IF prefs = Null THEN EmptyLayouts
  ELSE IF prefs[1].layout_view.kind = "object" THEN prefs[1].layout_view.layouts
  ELSE IF prefs[1].layout_view.kind = "jsonObject" THEN prefs[1].layout_view.layouts
  ELSE [k \in WidgetKey |-> LayoutRec(0, 0, NEW_WIDGET_W, NEW_WIDGET_H)]

parseWidgetLayouts(prefs) ==
  IF prefs = Null \/ prefs[1].layout_view.kind = "absent" THEN EmptyLayouts
  ELSE IF prefs[1].layout_view.kind = "object" THEN prefs[1].layout_view.layouts
  ELSE IF prefs[1].layout_view.kind = "jsonObject" THEN prefs[1].layout_view.layouts
  ELSE EmptyLayouts

\* sanitizeKeys: drop the keys that are not allowed and every repeated key
RECURSIVE sanitizeFrom(_, _)
sanitizeFrom(keys, seen) ==
  IF keys = <<>> THEN <<>>
  ELSE IF Head(keys) \notin WidgetKey THEN sanitizeFrom(Tail(keys), seen)
  ELSE IF Head(keys) \in seen THEN sanitizeFrom(Tail(keys), seen)
  ELSE <<Head(keys)>> \o sanitizeFrom(Tail(keys), seen \cup {Head(keys)})

\* mutant: repeated keys are kept
sanitizeKeysKeepsRepeats(keys) == FilterSeq(keys, WidgetKey)

sanitizeKeys(keys) == sanitizeFrom(keys, {})

\* the body of the preference load effect behind its user guard: the values
\* it sets for visibleWidgets, widgetOrder and widgetLayouts
LoadedState(prefs) ==
  LET nextVisibleRaw == IF prefs # Null /\ prefs[1].visible_widgets # Null
                        THEN prefs[1].visible_widgets[1] ELSE defaultVisibleWidgets
      nextOrderRaw == IF prefs # Null /\ prefs[1].card_order # Null
                      THEN prefs[1].card_order[1] ELSE defaultWidgetKeys
      nextVisible == sanitizeKeys(nextVisibleRaw)
      nextOrderBase == sanitizeKeys(nextOrderRaw)
      missingVisible == FilterSeq(nextVisible, Range(nextVisible) \ Range(nextOrderBase))
  IN [visible |-> nextVisible,
      order |-> nextOrderBase \o missingVisible,
      layouts |-> compactLayoutsUtil(parseWidgetLayouts(prefs), nextVisible)]

\* the dependencies of the load effect that come from the query data
EffectDeps(prefs) ==
  IF prefs = Null THEN <<>>
  ELSE <<prefs[1].visible_widgets, prefs[1].card_order, prefs[1].layout_view>>

\* mutant: a key is added and never deleted
TogglePendingAddOnly(pending, key) ==
  IF key \in Range(pending) THEN pending ELSE Append(pending, key)

\* Set.has / delete / add on a Set, which iterates in insertion order
TogglePending(pending, key) ==
  IF key \in Range(pending) THEN FilterSeq(pending, Range(pending) \ {key})
  ELSE Append(pending, key)

willWidgetBeVisible(key) ==
  LET isCurrentlyVisible == key \in Range(visibleWidgets)
      isPending == key \in Range(pendingWidgetChanges)
  IN IF isPending THEN ~isCurrentlyVisible ELSE isCurrentlyVisible

\* findNextGridPosition: the grid marked from the existing layouts
NextPositionGrid(existingLayouts) ==
  LET Rows(l) == l.y..(l.y + l.h - 1)
      Cols(l) == {c \in l.x..(l.x + l.w - 1) : c < COLS}
      vals == {existingLayouts[k] : k \in DOMAIN existingLayouts}
  IN [row \in UNION {Rows(l) : l \in vals} |->
        UNION {Cols(l) : l \in {m \in vals : row \in Rows(m)}}]

NextPositionFits(grid, x, y, widgetWidth, widgetHeight) ==
  \A dy \in 0..(widgetHeight - 1) : \A dx \in 0..(widgetWidth - 1) :
    ~GridCell(grid, y + dy, x + dx)

findNextGridPosition(existingLayouts, widgetWidth, widgetHeight) ==
  LET grid == NextPositionGrid(existingLayouts)
      Fits(p) == NextPositionFits(grid, p[1], p[2], widgetWidth, widgetHeight)
      RowFits(y) == \E x \in 0..(COLS - widgetWidth) : Fits(<<x, y>>)
  IN IF \E y \in 0..(SCAN_ROWS - 1) : RowFits(y)
     THEN LET y == CHOOSE r \in 0..(SCAN_ROWS - 1) :
                     RowFits(r) /\ \A q \in 0..(r - 1) : ~RowFits(q)
              x == CHOOSE c \in 0..(COLS - widgetWidth) :
                     Fits(<<c, y>>) /\ \A d \in 0..(c - 1) : ~Fits(<<d, y>>)
          IN [x |-> x, y |-> y]
     ELSE [x |-> 0, y |-> Cardinality(DOMAIN existingLayouts) * FALLBACK_STRIDE]

\* mutant: a removed widget stays in widgetOrder
SaveStepKeepsOrder(final, key) ==
  IF key \in Range(visibleWidgets)
  THEN [visible |-> FilterSeq(final.visible, Range(final.visible) \ {key}),
        order |-> final.order,
        layouts |-> DeleteLayout(final.layouts, key)]
  ELSE LET position == findNextGridPosition(final.layouts, NEW_WIDGET_W, NEW_WIDGET_H)
       IN [visible |-> Append(final.visible, key),
           order |-> IF key \in Range(final.order) THEN final.order
                     ELSE Append(final.order, key),
           layouts |-> PutLayout(final.layouts, key,
                                 LayoutRec(position.x, position.y,
                                           NEW_WIDGET_W, NEW_WIDGET_H))]

\* mutant: an added widget is not pushed to the order
SaveStepNoOrderPush(final, key) ==
  IF key \in Range(visibleWidgets)
  THEN [visible |-> FilterSeq(final.visible, Range(final.visible) \ {key}),
        order |-> FilterSeq(final.order, Range(final.order) \ {key}),
        layouts |-> DeleteLayout(final.layouts, key)]
  ELSE LET position == findNextGridPosition(final.layouts, NEW_WIDGET_W, NEW_WIDGET_H)
       IN [visible |-> Append(final.visible, key),
           order |-> final.order,
           layouts |-> PutLayout(final.layouts, key,
                                 LayoutRec(position.x, position.y,
                                           NEW_WIDGET_W, NEW_WIDGET_H))]

\* mutant: a widget that is added is pushed to the order without the
\* includes test
SaveStepPushesAlways(final, key) ==
  IF key \in Range(visibleWidgets)
  THEN [visible |-> FilterSeq(final.visible, Range(final.visible) \ {key}),
        order |-> FilterSeq(final.order, Range(final.order) \ {key}),
        layouts |-> DeleteLayout(final.layouts, key)]
  ELSE LET position == findNextGridPosition(final.layouts, NEW_WIDGET_W, NEW_WIDGET_H)
       IN [visible |-> Append(final.visible, key),
           order |-> Append(final.order, key),
           layouts |-> PutLayout(final.layouts, key,
                                 LayoutRec(position.x, position.y,
                                           NEW_WIDGET_W, NEW_WIDGET_H))]

\* handleSaveLayout: the body of pendingWidgetChanges.forEach
SaveStep(final, key) ==
  IF key \in Range(visibleWidgets)
  THEN [visible |-> FilterSeq(final.visible, Range(final.visible) \ {key}),
        order |-> FilterSeq(final.order, Range(final.order) \ {key}),
        layouts |-> DeleteLayout(final.layouts, key)]
  ELSE LET position == findNextGridPosition(final.layouts, NEW_WIDGET_W, NEW_WIDGET_H)
       IN [visible |-> Append(final.visible, key),
           order |-> IF key \in Range(final.order) THEN final.order
                     ELSE Append(final.order, key),
           layouts |-> PutLayout(final.layouts, key,
                                 LayoutRec(position.x, position.y,
                                           NEW_WIDGET_W, NEW_WIDGET_H))]

RECURSIVE SaveSteps(_, _)
SaveSteps(final, pending) ==
  IF pending = <<>> THEN final
  ELSE SaveSteps(SaveStep(final, Head(pending)), Tail(pending))

\* handleSaveLayout: finalVisible, finalOrder and the compacted layouts
SavedState ==
  LET final == SaveSteps([visible |-> visibleWidgets, order |-> widgetOrder,
                          layouts |-> widgetLayouts], pendingWidgetChanges)
  IN [visible |-> final.visible, order |-> final.order,
      layouts |-> compactLayoutsUtil(final.layouts, final.visible)]

Snapshot == [visible |-> visibleWidgets, order |-> widgetOrder, layouts |-> widgetLayouts]

\* the number of Save clicks, of layout changes and of pending-widget
\* toggles in a run
MaxSaves == 2
MaxDrags == 1
MaxToggles == 2

\* the rows the backend may hold when the dashboard mounts: none; a row
\* written by an earlier save; a row with unknown and repeated keys, no
\* card_order and a legacy layout_view; a row whose layout_view is JSON
\* text of something else than an object; a row of nulls; a row whose
\* layout_view is an object that still holds the layout of a hidden widget
InitialRows ==
  { Null,
    Some(PrefsRow(Some(<<"deals", "leads">>), Some(<<"deals", "leads", "contacts">>),
                  JSONstringify([k \in {"deals", "leads"} |->
                                   IF k = "deals" THEN LayoutRec(0, 0, 6, 2)
                                   ELSE LayoutRec(6, 3, 3, 2)]))),
    Some(PrefsRow(Some(<<"contacts", "bogus", "contacts", "deals">>), Null,
                  LayoutView("legacy", EmptyLayouts))),
    Some(PrefsRow(Some(<<"deals">>), Some(<<"contacts", "deals">>),
                  LayoutView("jsonOther", EmptyLayouts))),
    Some(PrefsRow(Null, Null, LayoutView("absent", EmptyLayouts))),
    Some(PrefsRow(Some(<<"leads">>), Some(<<"leads", "contacts", "deals">>),
                  LayoutView("object",
                             [k \in {"leads", "contacts"} |->
                                IF k = "leads" THEN LayoutRec(3, 1, 3, 2)
                                ELSE LayoutRec(0, 0, 6, 2)]))) }

\* the layouts the grid component reports after a drag or a resize: one
\* entry for every visible widget, the first widget at one rectangle and the
\* others at another
DragRecs == {LayoutRec(0, 0, 6, 2), LayoutRec(6, 3, 3, 2)}

DragLayouts(visible) ==
  { [k \in Range(visible) |-> IF k = visible[1] THEN first ELSE rest] :
      first \in DragRecs, rest \in DragRecs }

DashInit ==
  /\ user \in {"", "u1"}
  /\ dbRow \in IF user = "" THEN {Null} ELSE InitialRows
  /\ dashboardPrefs = Null
  /\ prefsFetching = (user # "")
  /\ saveInFlight = Null
  /\ isResizeMode = FALSE
  /\ pendingWidgetChanges = <<>>
  /\ originalState = Null
  /\ visibleWidgets = defaultVisibleWidgets
  /\ widgetOrder = defaultWidgetKeys
  /\ widgetLayouts = EmptyLayouts
  /\ toast = ""
  /\ atEnter = Null
  /\ saveCount = 0
  /\ dragCount = 0
  /\ toggleCount = 0
  /\ PackerIdle
  /\ ProfileIdle
  /\ FilterIdle
  /\ ClickIdle

\* the dashboard-prefs query resolves with the backend's row; the load
\* effect runs when one of its dependencies changed
QueryResolves ==
  /\ prefsFetching
  /\ prefsFetching' = FALSE
  /\ dashboardPrefs' = dbRow
  /\ IF EffectDeps(dbRow) # EffectDeps(dashboardPrefs)
     THEN /\ isResizeMode' = FALSE
          /\ visibleWidgets' = LoadedState(dbRow).visible
          /\ widgetOrder' = LoadedState(dbRow).order
          /\ widgetLayouts' = LoadedState(dbRow).layouts
          /\ atEnter' = Null
     ELSE UNCHANGED <<isResizeMode, visibleWidgets, widgetOrder, widgetLayouts, atEnter>>
  /\ toast' = ""
  /\ UNCHANGED <<user, pendingWidgetChanges, originalState, saveInFlight, dbRow, saveCount, dragCount, toggleCount>>
  /\ UNCHANGED <<packerVars, profileVars, filterVars, clickVars>>

handleEnterCustomizeMode ==
  /\ ~isResizeMode
  /\ originalState' = Some(Snapshot)
  /\ isResizeMode' = TRUE
  /\ atEnter' = Some(Snapshot)
  /\ toast' = ""
  /\ UNCHANGED <<user, pendingWidgetChanges, visibleWidgets, widgetOrder, widgetLayouts,
                 dashboardPrefs, prefsFetching, saveInFlight, dbRow, saveCount, dragCount, toggleCount>>
  /\ UNCHANGED <<packerVars, profileVars, filterVars, clickVars>>

handleLayoutChange ==
  /\ isResizeMode
  /\ dragCount < MaxDrags
  /\ dragCount' = dragCount + 1
  /\ \E newLayouts \in DragLayouts(visibleWidgets) :
       widgetLayouts' = compactLayoutsUtil(newLayouts, visibleWidgets)
  /\ toast' = ""
  /\ UNCHANGED <<user, isResizeMode, pendingWidgetChanges, originalState, visibleWidgets,
                 widgetOrder, dashboardPrefs, prefsFetching, saveInFlight, dbRow,
                 atEnter, saveCount, toggleCount>>
  /\ UNCHANGED <<packerVars, profileVars, filterVars, clickVars>>

\* mutant: a toggle also changes the visible list at once
togglePendingWidgetEager ==
  /\ isResizeMode
  /\ toggleCount < MaxToggles
  /\ toggleCount' = toggleCount + 1
  /\ \E key \in WidgetKey :
       /\ pendingWidgetChanges' = TogglePending(pendingWidgetChanges, key)
       /\ visibleWidgets' = IF key \in Range(visibleWidgets)
                            THEN FilterSeq(visibleWidgets, Range(visibleWidgets) \ {key})
                            ELSE Append(visibleWidgets, key)
  /\ toast' = ""
  /\ UNCHANGED <<user, isResizeMode, originalState, widgetOrder,
                 widgetLayouts, dashboardPrefs, prefsFetching, saveInFlight, dbRow,
                 atEnter, saveCount, dragCount>>
  /\ UNCHANGED <<packerVars, profileVars, filterVars, clickVars>>

togglePendingWidget ==
  /\ isResizeMode
  /\ toggleCount < MaxToggles
  /\ toggleCount' = toggleCount + 1
  /\ \E key \in WidgetKey :
       pendingWidgetChanges' = TogglePending(pendingWidgetChanges, key)
  /\ toast' = ""
  /\ UNCHANGED <<user, isResizeMode, originalState, visibleWidgets, widgetOrder,
                 widgetLayouts, dashboardPrefs, prefsFetching, saveInFlight, dbRow,
                 atEnter, saveCount, dragCount>>
  /\ UNCHANGED <<packerVars, profileVars, filterVars, clickVars>>

handleWidgetRemove ==
  /\ isResizeMode
  /\ toggleCount < MaxToggles
  /\ toggleCount' = toggleCount + 1
  /\ \E key \in WidgetKey :
       LET isCurrentlyVisible == key \in Range(visibleWidgets)
           next == TogglePending(pendingWidgetChanges, key)
       IN /\ pendingWidgetChanges' = next
          /\ toast' = IF isCurrentlyVisible
                      THEN (IF key \in Range(next) THEN "Marked for removal"
                            ELSE "Removal undone")
                      ELSE (IF key \in Range(next) THEN "Marked to add" ELSE "Add undone")
  /\ UNCHANGED <<user, isResizeMode, originalState, visibleWidgets, widgetOrder,
                 widgetLayouts, dashboardPrefs, prefsFetching, saveInFlight, dbRow,
                 atEnter, saveCount, dragCount>>
  /\ UNCHANGED <<packerVars, profileVars, filterVars, clickVars>>

\* the Save button is disabled while savePreferencesMutation.isPending
\* mutant: the Save button is enabled while a save is pending
handleSaveLayoutWhilePending ==
  /\ isResizeMode
  /\ saveCount < MaxSaves
  /\ visibleWidgets' = SavedState.visible
  /\ widgetOrder' = SavedState.order
  /\ widgetLayouts' = SavedState.layouts
  /\ saveInFlight' = Some([widgets |-> SavedState.visible, order |-> SavedState.order,
                           layouts |-> SavedState.layouts])
  /\ pendingWidgetChanges' = <<>>
  /\ originalState' = Null
  /\ isResizeMode' = FALSE
  /\ saveCount' = saveCount + 1
  /\ toast' = ""
  /\ atEnter' = Null
  /\ UNCHANGED <<user, dashboardPrefs, prefsFetching, dbRow, dragCount, toggleCount>>
  /\ UNCHANGED <<packerVars, profileVars, filterVars, clickVars>>

handleSaveLayout ==
  /\ isResizeMode
  /\ saveInFlight = Null
  /\ saveCount < MaxSaves
  /\ visibleWidgets' = SavedState.visible
  /\ widgetOrder' = SavedState.order
  /\ widgetLayouts' = SavedState.layouts
  /\ saveInFlight' = Some([widgets |-> SavedState.visible, order |-> SavedState.order,
                           layouts |-> SavedState.layouts])
  /\ pendingWidgetChanges' = <<>>
  /\ originalState' = Null
  /\ isResizeMode' = FALSE
  /\ saveCount' = saveCount + 1
  /\ toast' = ""
  /\ atEnter' = Null
  /\ UNCHANGED <<user, dashboardPrefs, prefsFetching, dbRow, dragCount, toggleCount>>
  /\ UNCHANGED <<packerVars, profileVars, filterVars, clickVars>>

\* mutant: the layouts are not restored
CancelledStateKeepsLayouts ==
  IF originalState # Null
  THEN [visible |-> originalState[1].visible, order |-> originalState[1].order,
        layouts |-> widgetLayouts]
  ELSE Snapshot

\* handleCancelCustomize: the values it leaves in visibleWidgets, widgetOrder
\* and widgetLayouts
CancelledState ==
  IF originalState # Null
  THEN [visible |-> originalState[1].visible, order |-> originalState[1].order,
        layouts |-> originalState[1].layouts]
  ELSE Snapshot

CancelEffect ==
  /\ visibleWidgets' = CancelledState.visible
  /\ widgetOrder' = CancelledState.order
  /\ widgetLayouts' = CancelledState.layouts
  /\ pendingWidgetChanges' = <<>>
  /\ originalState' = Null
  /\ isResizeMode' = FALSE
  /\ toast' = "Changes discarded"

\* the Cancel button, shown in customize mode
handleCancelCustomize ==
  /\ isResizeMode
  /\ CancelEffect
  /\ UNCHANGED <<user, dashboardPrefs, prefsFetching, saveInFlight, dbRow, atEnter, saveCount, dragCount, toggleCount>>
  /\ UNCHANGED <<packerVars, profileVars, filterVars, clickVars>>

\* mutant: Escape leaves the mode and keeps the pending set
EscapeKeyDownKeepsPending ==
  /\ IF isResizeMode
     THEN /\ visibleWidgets' = CancelledState.visible
          /\ widgetOrder' = CancelledState.order
          /\ widgetLayouts' = CancelledState.layouts
          /\ originalState' = Null
          /\ isResizeMode' = FALSE
          /\ toast' = "Changes discarded"
          /\ UNCHANGED pendingWidgetChanges
     ELSE UNCHANGED <<visibleWidgets, widgetOrder, widgetLayouts, pendingWidgetChanges,
                      originalState, isResizeMode>> /\ toast' = ""
  /\ UNCHANGED <<user, dashboardPrefs, prefsFetching, saveInFlight, dbRow, atEnter, saveCount, dragCount, toggleCount>>
  /\ UNCHANGED <<packerVars, profileVars, filterVars, clickVars>>

\* a keydown of Escape: the listener is attached only in customize mode
EscapeKeyDown ==
  /\ IF isResizeMode
     THEN CancelEffect
     ELSE UNCHANGED <<visibleWidgets, widgetOrder, widgetLayouts, pendingWidgetChanges,
                      originalState, isResizeMode>> /\ toast' = ""
  /\ UNCHANGED <<user, dashboardPrefs, prefsFetching, saveInFlight, dbRow, atEnter, saveCount, dragCount, toggleCount>>
  /\ UNCHANGED <<packerVars, profileVars, filterVars, clickVars>>

\* savePreferencesMutation: the upsert succeeds; onSuccess invalidates the
\* dashboard-prefs query, which fetches again
SaveSucceeds ==
  /\ saveInFlight # Null
  /\ user # ""
  /\ dbRow' = Some(PrefsRow(Some(saveInFlight[1].widgets), Some(saveInFlight[1].order),
                            JSONstringify(saveInFlight[1].layouts)))
  /\ saveInFlight' = Null
  /\ prefsFetching' = TRUE
  /\ toast' = "Dashboard layout saved"
  /\ UNCHANGED <<user, isResizeMode, pendingWidgetChanges, originalState, visibleWidgets,
                 widgetOrder, widgetLayouts, dashboardPrefs, atEnter, saveCount, dragCount, toggleCount>>
  /\ UNCHANGED <<packerVars, profileVars, filterVars, clickVars>>

\* mutant: a failed save puts back what the last load gave
SaveFailsResets ==
  /\ saveInFlight # Null
  /\ saveInFlight' = Null
  /\ toast' = "Failed to save layout"
  /\ visibleWidgets' = LoadedState(dashboardPrefs).visible
  /\ widgetOrder' = LoadedState(dashboardPrefs).order
  /\ widgetLayouts' = LoadedState(dashboardPrefs).layouts
  /\ UNCHANGED <<user, isResizeMode, pendingWidgetChanges, originalState,
                 dashboardPrefs, prefsFetching, dbRow,
                 atEnter, saveCount, dragCount, toggleCount>>
  /\ UNCHANGED <<packerVars, profileVars, filterVars, clickVars>>

\* savePreferencesMutation: mutationFn throws (no user, or the upsert
\* returned an error)
SaveFails ==
  /\ saveInFlight # Null
  /\ saveInFlight' = Null
  /\ toast' = "Failed to save layout"
  /\ UNCHANGED <<user, isResizeMode, pendingWidgetChanges, originalState, visibleWidgets,
                 widgetOrder, widgetLayouts, dashboardPrefs, prefsFetching, dbRow,
                 atEnter, saveCount, dragCount, toggleCount>>
  /\ UNCHANGED <<packerVars, profileVars, filterVars, clickVars>>

DashNext ==
  \/ QueryResolves
  \/ handleEnterCustomizeMode
  \/ handleLayoutChange
  \/ togglePendingWidget
  \/ handleWidgetRemove
  \/ handleSaveLayout
  \/ handleCancelCustomize
  \/ EscapeKeyDown
  \/ SaveSucceeds
  \/ SaveFails

Spec == DashInit /\ [][DashNext]_vars

\* ---------------------------------------------------------------------
\* Customize mode: snapshot / restore and save

\* a Cancel: the Cancel button, or Escape while the listener is attached
CancelStep == handleCancelCustomize \/ (isResizeMode /\ EscapeKeyDown)

\* C5: a Cancel leaves visibleWidgets, widgetOrder and widgetLayouts at the
\* values they had at the most recent Enter, the pending set empty, the
\* snapshot null and customize mode off
C5_CancelRestores ==
  [][CancelStep =>
       /\ atEnter # Null
       /\ visibleWidgets' = atEnter[1].visible
       /\ widgetOrder' = atEnter[1].order
       /\ widgetLayouts' = atEnter[1].layouts
       /\ pendingWidgetChanges' = <<>>
       /\ originalState' = Null
       /\ ~isResizeMode']_vars

\* a Cancel has just run after a layout change and a toggle, before any Save
C5_Witness ==
  /\ toast = "Changes discarded"
  /\ ~isResizeMode
  /\ dragCount > 0 /\ toggleCount > 0 /\ saveCount = 0
  /\ atEnter # Null
  /\ visibleWidgets = atEnter[1].visible
  /\ widgetLayouts = atEnter[1].layouts
  /\ pendingWidgetChanges = <<>>

\* C6: after handleSaveLayout a key is visible exactly when
\* willWidgetBeVisible(key) held just before, so the visible set is the
\* symmetric difference of the visible set and the pending set; a removed
\* widget is in neither widgetOrder nor the layouts; the pending set is
\* empty, the snapshot null and customize mode off
C6_SaveAppliesPending ==
  [][handleSaveLayout =>
       LET visible == Range(visibleWidgets)
           pending == Range(pendingWidgetChanges)
       IN /\ \A key \in WidgetKey :
               (key \in Range(visibleWidgets')) = willWidgetBeVisible(key)
          /\ Range(visibleWidgets') = (visible \ pending) \cup (pending \ visible)
          /\ \A key \in visible \cap pending :
               /\ key \notin Range(widgetOrder')
               /\ key \notin DOMAIN widgetLayouts'
          /\ pendingWidgetChanges' = <<>>
          /\ originalState' = Null
          /\ ~isResizeMode']_vars

\* the first Save of a dashboard without a stored row has removed contacts
\* and added deals
C6_Witness ==
  /\ saveInFlight # Null
  /\ saveCount = 1
  /\ dbRow = Null
  /\ visibleWidgets = <<"leads", "deals">>
  /\ "contacts" \notin Range(widgetOrder)
  /\ "contacts" \notin DOMAIN widgetLayouts
  /\ pendingWidgetChanges = <<>>
  /\ ~isResizeMode

\* ---------------------------------------------------------------------
\* ProfileSection: debounced autosave of the display preferences, avatar
\* upload and removal

\* the number of displayPrefs changes and of avatar operations in a run
MaxChanges == 2
MaxAvatarOps == 1

\* the keys of a DisplayPrefs object, in insertion order
PrefKeys == <<"date_format", "time_format", "currency", "default_module">>

\* JSON.stringify(prefs): the key / value pairs in insertion order
stringifyPrefs(prefs) == [i \in 1..Len(PrefKeys) |-> <<PrefKeys[i], prefs[PrefKeys[i]]>>]

\* the display preferences a run goes through: two of the selects, two of
\* their items each
DisplayPrefsVals ==
  { [date_format |-> "DD/MM/YYYY", time_format |-> t, currency |-> c,
     default_module |-> "dashboard"] : t \in {"12h", "24h"}, c \in {"INR", "USD"} }

InitialDisplayPrefs ==
  [date_format |-> "DD/MM/YYYY", time_format |-> "12h", currency |-> "INR",
   default_module |-> "dashboard"]

\* a select changes one field: setDisplayPrefs(p => ({ ...p, field: value }))
OneFieldChanged(old, new) ==
  Cardinality({i \in 1..Len(PrefKeys) : old[PrefKeys[i]] # new[PrefKeys[i]]}) = 1

ErrorStatuses == {"error", "bucketError"}

ErrorToasts ==
  {"Failed to save display preferences", "Avatar storage not configured",
   "Failed to upload", "Failed to remove profile picture"}

\* mutant: clearTimeout does nothing
ClearTimeoutNoop(ts, ref) == ts

\* clearTimeout(saveTimeoutRef.current), guarded by if (saveTimeoutRef.current)
ClearTimeout(ts, ref) ==
  IF ref = Null THEN ts ELSE {t \in ts : t.id # ref[1]}

\* mutant: saveDisplayPrefs sends nothing
saveDisplayPrefsNothing(reqs, prefs) == reqs

\* saveDisplayPrefs(prefs) up to its await: the upsert it sends
saveDisplayPrefs(reqs, prefs) ==
  IF userId = "" THEN reqs
  ELSE reqs (+) SetToBag({[prefs |-> prefs, status |-> "sent"]})

\* a bag of requests with one more r, with one r less, with one r replaced
AddTo(reqs, r) == reqs (+) SetToBag({r})
RemoveFrom(reqs, r) == reqs (-) SetToBag({r})
Replace(reqs, r, q) == AddTo(RemoveFrom(reqs, r), q)

ProfileInit ==
  /\ userId = "u1"
  /\ displayPrefs = InitialDisplayPrefs
  /\ lastSavedRef = stringifyPrefs(displayPrefs)
  /\ backendPrefs = displayPrefs
  /\ saveTimeoutRef = Null
  /\ effectCleanup = FALSE
  /\ mounted = TRUE
  /\ timers = {}
  /\ requests = EmptyBag
  /\ avatarRequests = EmptyBag
  /\ profileAvatarUrl \in {"", "url"}
  /\ removingAvatar = FALSE
  /\ profileToast = ""
  /\ changeCount = 0
  /\ upsertCount = 0
  /\ avatarOps = 0
  /\ unsentChange = FALSE
  /\ requestFailed = FALSE
  /\ PackerIdle
  /\ DashboardIdle
  /\ FilterIdle
  /\ ClickIdle

\* mutant: the autosave effect returns no cleanup
setDisplayPrefsNoCleanup ==
  /\ mounted
  /\ changeCount < MaxChanges
  /\ \E new \in DisplayPrefsVals :
       /\ OneFieldChanged(displayPrefs, new)
       /\ displayPrefs' = new
       /\ LET afterCleanup == timers
              currentPrefs == stringifyPrefs(new)
              timerId == changeCount + 1
          IN IF currentPrefs = lastSavedRef
             THEN /\ timers' = afterCleanup
                  /\ effectCleanup' = FALSE
                  /\ UNCHANGED <<saveTimeoutRef, unsentChange>>
             ELSE /\ timers' = ClearTimeout(afterCleanup, saveTimeoutRef)
                                 \cup {[id |-> timerId, prefs |-> new]}
                  /\ saveTimeoutRef' = Some(timerId)
                  /\ effectCleanup' = TRUE
                  /\ unsentChange' = TRUE
  /\ changeCount' = changeCount + 1
  /\ profileToast' = ""
  /\ UNCHANGED <<requestFailed, userId, lastSavedRef, mounted, requests, avatarRequests, backendPrefs,
                 profileAvatarUrl,
                 removingAvatar, upsertCount, avatarOps>>
  /\ UNCHANGED <<packerVars, dashVars, filterVars, clickVars>>

\* a select's onValueChange calls setDisplayPrefs; the autosave effect runs
\* again: the cleanup of its previous run, then its body
setDisplayPrefs ==
  /\ mounted
  /\ changeCount < MaxChanges
  /\ \E new \in DisplayPrefsVals :
       /\ OneFieldChanged(displayPrefs, new)
       /\ displayPrefs' = new
       /\ LET afterCleanup == IF effectCleanup THEN ClearTimeout(timers, saveTimeoutRef)
                              ELSE timers
              currentPrefs == stringifyPrefs(new)
              timerId == changeCount + 1
          IN IF currentPrefs = lastSavedRef
             THEN /\ timers' = afterCleanup
                  /\ effectCleanup' = FALSE
                  /\ UNCHANGED <<saveTimeoutRef, unsentChange>>
             ELSE /\ timers' = ClearTimeout(afterCleanup, saveTimeoutRef)
                                 \cup {[id |-> timerId, prefs |-> new]}
                  /\ saveTimeoutRef' = Some(timerId)
                  /\ effectCleanup' = TRUE
                  /\ unsentChange' = TRUE
  /\ changeCount' = changeCount + 1
  /\ profileToast' = ""
  /\ UNCHANGED <<requestFailed, userId, lastSavedRef, mounted, requests, avatarRequests, backendPrefs,
                 profileAvatarUrl,
                 removingAvatar, upsertCount, avatarOps>>
  /\ UNCHANGED <<packerVars, dashVars, filterVars, clickVars>>

\* the debounce timer fires: saveDisplayPrefs(displayPrefs) with the value
\* the effect run captured
TimerFires ==
  /\ \E t \in timers :
       /\ timers' = timers \ {t}
       /\ requests' = saveDisplayPrefs(requests, t.prefs)
  /\ upsertCount' = upsertCount + (BagCardinality(requests') - BagCardinality(requests))
  /\ unsentChange' = IF requests' # requests THEN FALSE ELSE unsentChange
  /\ profileToast' = ""
  /\ UNCHANGED <<requestFailed, userId, displayPrefs, lastSavedRef, saveTimeoutRef, effectCleanup, mounted,
                 avatarRequests, backendPrefs, profileAvatarUrl, removingAvatar,
                 changeCount, avatarOps>>
  /\ UNCHANGED <<packerVars, dashVars, filterVars, clickVars>>

\* the backend handles an upsert of user_preferences: it applies it, or
\* rejects it
BackendUpserts ==
  /\ \E r \in BagToSet(requests) : \E outcome \in {"ok", "error"} :
       /\ r.status = "sent"
       /\ requests' = Replace(requests, r, [r EXCEPT !.status = outcome])
       /\ backendPrefs' = IF outcome = "ok" THEN r.prefs ELSE backendPrefs
       /\ requestFailed' = (requestFailed \/ outcome # "ok")
  /\ profileToast' = ""
  /\ UNCHANGED <<userId, displayPrefs, lastSavedRef, saveTimeoutRef, effectCleanup, mounted,
                 timers, avatarRequests, profileAvatarUrl, removingAvatar, changeCount,
                 upsertCount, avatarOps, unsentChange>>
  /\ UNCHANGED <<packerVars, dashVars, filterVars, clickVars>>

\* the backend handles an avatar request (storage upload, storage remove,
\* profiles update): it succeeds, or returns an error
BackendAvatar ==
  /\ \E r \in BagToSet(avatarRequests) :
       \E outcome \in {"ok"} \cup (IF r.kind = "upload" THEN ErrorStatuses ELSE {"error"}) :
         /\ r.status = "sent"
         /\ avatarRequests' = Replace(avatarRequests, r, [r EXCEPT !.status = outcome])
         /\ requestFailed' = (requestFailed \/ outcome # "ok")
  /\ profileToast' = ""
  /\ UNCHANGED <<userId, displayPrefs, lastSavedRef, saveTimeoutRef, effectCleanup, mounted,
                 timers, requests, backendPrefs, profileAvatarUrl, removingAvatar,
                 changeCount, upsertCount, avatarOps, unsentChange>>
  /\ UNCHANGED <<packerVars, dashVars, filterVars, clickVars>>

\* mutant: a failed upsert is sent again
saveDisplayPrefsReturnsRetries(r) ==
  /\ BagIn(r, requests)
  /\ r.status # "sent"
  /\ IF r.status = "ok"
     THEN /\ lastSavedRef' = stringifyPrefs(r.prefs)
          /\ requests' = RemoveFrom(requests, r)
          /\ profileToast' = ""
     ELSE /\ profileToast' = "Failed to save display preferences"
          /\ requests' = Replace(requests, r, [r EXCEPT !.status = "sent"])
          /\ UNCHANGED lastSavedRef
  /\ UNCHANGED <<requestFailed, userId, displayPrefs, saveTimeoutRef, effectCleanup, mounted, timers,
                 avatarRequests, backendPrefs, profileAvatarUrl, removingAvatar,
                 changeCount, upsertCount, avatarOps, unsentChange>>
  /\ UNCHANGED <<packerVars, dashVars, filterVars, clickVars>>

\* saveDisplayPrefs after its await
saveDisplayPrefsReturns(r) ==
  /\ BagIn(r, requests)
  /\ r.status # "sent"
  /\ requests' = RemoveFrom(requests, r)
  /\ IF r.status = "ok"
     THEN /\ lastSavedRef' = stringifyPrefs(r.prefs)
          /\ profileToast' = ""
     ELSE /\ profileToast' = "Failed to save display preferences"
          /\ UNCHANGED lastSavedRef
  /\ UNCHANGED <<requestFailed, userId, displayPrefs, saveTimeoutRef, effectCleanup, mounted, timers,
                 avatarRequests, backendPrefs, profileAvatarUrl, removingAvatar,
                 changeCount, upsertCount, avatarOps, unsentChange>>
  /\ UNCHANGED <<packerVars, dashVars, filterVars, clickVars>>

\* a file is chosen: handleAvatarUpload up to the await of the upload
handleAvatarUpload ==
  /\ mounted
  /\ avatarOps < MaxAvatarOps
  /\ avatarOps' = avatarOps + 1
  /\ avatarRequests' = IF userId = "" THEN avatarRequests
                       ELSE AddTo(avatarRequests, [kind |-> "upload", status |-> "sent"])
  /\ profileToast' = ""
  /\ UNCHANGED <<requestFailed, userId, displayPrefs, lastSavedRef, saveTimeoutRef, effectCleanup, mounted,
                 timers, requests, backendPrefs, profileAvatarUrl, removingAvatar,
                 changeCount, upsertCount, unsentChange>>
  /\ UNCHANGED <<packerVars, dashVars, filterVars, clickVars>>

\* handleAvatarUpload after the upload: throw on uploadError, else set the
\* new url and send the profiles update
handleAvatarUploadUploaded(r) ==
  /\ BagIn(r, avatarRequests)
  /\ r.kind = "upload"
  /\ r.status # "sent"
  /\ IF r.status = "ok"
     THEN /\ profileAvatarUrl' = "url"
          /\ avatarRequests' = Replace(avatarRequests, r,
                                       [kind |-> "updateAfterUpload", status |-> "sent"])
          /\ profileToast' = ""
     ELSE /\ avatarRequests' = RemoveFrom(avatarRequests, r)
          /\ profileToast' = IF r.status = "bucketError"
                             THEN "Avatar storage not configured" ELSE "Failed to upload"
          /\ UNCHANGED profileAvatarUrl
  /\ UNCHANGED <<requestFailed, userId, displayPrefs, lastSavedRef, saveTimeoutRef, effectCleanup, mounted,
                 timers, requests, backendPrefs, removingAvatar, changeCount, upsertCount,
                 avatarOps, unsentChange>>
  /\ UNCHANGED <<packerVars, dashVars, filterVars, clickVars>>

\* handleAvatarUpload after the profiles update, whose result is not read
handleAvatarUploadUpdated(r) ==
  /\ BagIn(r, avatarRequests)
  /\ r.kind = "updateAfterUpload"
  /\ r.status # "sent"
  /\ avatarRequests' = RemoveFrom(avatarRequests, r)
  /\ profileToast' = "Profile picture updated"
  /\ UNCHANGED <<requestFailed, userId, displayPrefs, lastSavedRef, saveTimeoutRef, effectCleanup, mounted,
                 timers, requests, backendPrefs, profileAvatarUrl, removingAvatar,
                 changeCount, upsertCount, avatarOps, unsentChange>>
  /\ UNCHANGED <<packerVars, dashVars, filterVars, clickVars>>

\* the remove button, rendered when profile.avatar_url is set and disabled
\* while removingAvatar: handleRemoveAvatar up to the await of the removal
handleRemoveAvatar ==
  /\ mounted
  /\ profileAvatarUrl # ""
  /\ ~removingAvatar
  /\ avatarOps < MaxAvatarOps
  /\ avatarOps' = avatarOps + 1
  /\ IF userId = ""
     THEN UNCHANGED <<removingAvatar, avatarRequests>>
     ELSE /\ removingAvatar' = TRUE
          /\ avatarRequests' = AddTo(avatarRequests, [kind |-> "remove", status |-> "sent"])
  /\ profileToast' = ""
  /\ UNCHANGED <<requestFailed, userId, displayPrefs, lastSavedRef, saveTimeoutRef, effectCleanup, mounted,
                 timers, requests, backendPrefs, profileAvatarUrl, changeCount, upsertCount,
                 unsentChange>>
  /\ UNCHANGED <<packerVars, dashVars, filterVars, clickVars>>

\* handleRemoveAvatar after the removal, whose result is not read: clear
\* the url and send the profiles update
handleRemoveAvatarRemoved(r) ==
  /\ BagIn(r, avatarRequests)
  /\ r.kind = "remove"
  /\ r.status # "sent"
  /\ profileAvatarUrl' = ""
  /\ avatarRequests' = Replace(avatarRequests, r,
                               [kind |-> "updateAfterRemove", status |-> "sent"])
  /\ profileToast' = ""
  /\ UNCHANGED <<requestFailed, userId, displayPrefs, lastSavedRef, saveTimeoutRef, effectCleanup, mounted,
                 timers, requests, backendPrefs, removingAvatar, changeCount, upsertCount,
                 avatarOps, unsentChange>>
  /\ UNCHANGED <<packerVars, dashVars, filterVars, clickVars>>

\* handleRemoveAvatar after the profiles update, whose result is not read
handleRemoveAvatarUpdated(r) ==
  /\ BagIn(r, avatarRequests)
  /\ r.kind = "updateAfterRemove"
  /\ r.status # "sent"
  /\ avatarRequests' = RemoveFrom(avatarRequests, r)
  /\ profileToast' = "Profile picture removed"
  /\ removingAvatar' = FALSE
  /\ UNCHANGED <<requestFailed, userId, displayPrefs, lastSavedRef, saveTimeoutRef, effectCleanup, mounted,
                 timers, requests, backendPrefs, profileAvatarUrl, changeCount, upsertCount,
                 avatarOps, unsentChange>>
  /\ UNCHANGED <<packerVars, dashVars, filterVars, clickVars>>

\* the section unmounts: the cleanup of the last effect run
Unmount ==
  /\ mounted
  /\ mounted' = FALSE
  /\ timers' = IF effectCleanup THEN ClearTimeout(timers, saveTimeoutRef) ELSE timers
  /\ profileToast' = ""
  /\ UNCHANGED <<requestFailed, userId, displayPrefs, lastSavedRef, saveTimeoutRef, effectCleanup,
                 requests, avatarRequests, backendPrefs, profileAvatarUrl, removingAvatar,
                 changeCount, upsertCount, avatarOps, unsentChange>>
  /\ UNCHANGED <<packerVars, dashVars, filterVars, clickVars>>

\* the response to an avatar request reaches the handler that awaits it
AvatarResponseArrives(r) ==
  \/ handleAvatarUploadUploaded(r)
  \/ handleAvatarUploadUpdated(r)
  \/ handleRemoveAvatarRemoved(r)
  \/ handleRemoveAvatarUpdated(r)

ProfileNext ==
  \/ setDisplayPrefs
  \/ TimerFires
  \/ BackendUpserts
  \/ BackendAvatar
  \/ handleAvatarUpload
  \/ handleRemoveAvatar
  \/ Unmount
  \/ \E r \in BagToSet(requests) : saveDisplayPrefsReturns(r)
  \/ \E r \in BagToSet(avatarRequests) : handleAvatarUploadUploaded(r)
  \/ \E r \in BagToSet(avatarRequests) : handleAvatarUploadUpdated(r)
  \/ \E r \in BagToSet(avatarRequests) : handleRemoveAvatarRemoved(r)
  \/ \E r \in BagToSet(avatarRequests) : handleRemoveAvatarUpdated(r)

SpecProfile == ProfileInit /\ [][ProfileNext]_vars

\* timers run their callbacks
FairSpecProfile == SpecProfile /\ WF_vars(TimerFires)

\* C7: the response to a failed request is followed by an error toast
C7_FailuresToasted ==
  [][/\ \A r \in BagToSet(requests) :
          (r.status \in ErrorStatuses /\ saveDisplayPrefsReturns(r))
            => profileToast' \in ErrorToasts
     /\ \A r \in BagToSet(avatarRequests) :
          (r.status \in ErrorStatuses /\ AvatarResponseArrives(r))
            => profileToast' \in ErrorToasts]_vars

Reverted == timers = {} /\ stringifyPrefs(displayPrefs) = lastSavedRef

MaxFilterValues == 3

\* the values of the SelectItems
FilterItems ==
  {"all", "New", "Attempted", "Follow-up", "Qualified", "Disqualified", "Converted"}

\* const isActive = value !== "all"
isActive(value) == value # "all"

\* <Select value={value || "all"}>: the item shown as selected
SelectValue(value) == IF value = "" THEN "all" ELSE value

\* the badge and the trigger border are rendered under isActive
BadgeShown(value) == isActive(value)

FilterValue == filterValues[Len(filterValues)]

FilterInit ==
  /\ filterValues \in {<<v>> : v \in FilterItems \cup {""}}
  /\ PackerIdle
  /\ DashboardIdle
  /\ ProfileIdle
  /\ ClickIdle

\* an item is chosen: onValueChange(v), and the parent passes v back
onValueChange ==
  /\ Len(filterValues) < MaxFilterValues
  /\ \E v \in FilterItems \ {SelectValue(FilterValue)} :
       filterValues' = Append(filterValues, v)
  /\ UNCHANGED <<packerVars, dashVars, profileVars, clickVars>>

FilterNext == onValueChange

SpecFilter == FilterInit /\ [][FilterNext]_vars

\* C10: the badge is shown exactly when the item shown as selected is
\* not "all"
C10_BadgeIffNotAll == BadgeShown(FilterValue) = (SelectValue(FilterValue) # "all")

\* ---------------------------------------------------------------------
\* Customize mode: the pending set

\* a toggle of a key by either handler
ToggleStep == togglePendingWidget \/ handleWidgetRemove

\* C11: either handler toggles the membership of one key in the pending
\* set, and one more toggle of that key gives back the set as it was
C11_ToggleInvolution ==
  [][ToggleStep =>
       \E key \in WidgetKey :
         /\ pendingWidgetChanges' = TogglePending(pendingWidgetChanges, key)
         /\ (key \in Range(pendingWidgetChanges')) = (key \notin Range(pendingWidgetChanges))
         /\ Range(pendingWidgetChanges') \ {key} = Range(pendingWidgetChanges) \ {key}
         /\ Range(TogglePending(pendingWidgetChanges', key)) = Range(pendingWidgetChanges)]_vars

\* handleWidgetRemove has just undone a toggle: the second of two toggles
\* of one key, and the pending set is empty again
C11_Witness ==
  /\ isResizeMode
  /\ toggleCount = 2
  /\ toast \in {"Removal undone", "Add undone"}
  /\ pendingWidgetChanges = <<>>

\* what a toggle leaves alone: the lists, the layouts, the snapshot, the
\* mode, the request under way and the backend
ToggleFrame ==
  UNCHANGED <<visibleWidgets, widgetOrder, widgetLayouts, originalState, isResizeMode,
              saveInFlight, dbRow, dashboardPrefs, prefsFetching>>

\* C12 as stated: a toggle changes only the pending set and sends no
\* request, and the visible list changes at Save only
C12_VisibleOnlyAtSave ==
  [][/\ ToggleStep => ToggleFrame
     /\ visibleWidgets' # visibleWidgets => handleSaveLayout]_vars

\* C12: a toggle changes only the pending set and sends no request; the
\* visible list changes at Save or at a preference load only
C12_Deferred ==
  [][/\ ToggleStep => ToggleFrame
     /\ visibleWidgets' # visibleWidgets => (handleSaveLayout \/ QueryResolves)]_vars

\* a visible widget is marked for removal and is still in the visible list
C12_Witness ==
  /\ isResizeMode
  /\ toast = "Marked for removal"
  /\ atEnter # Null
  /\ visibleWidgets = atEnter[1].visible
  /\ \E key \in Range(pendingWidgetChanges) : key \in Range(visibleWidgets)
  /\ saveInFlight = Null

\* ---------------------------------------------------------------------
\* Saving the dashboard preferences

\* C13: Save sets the visible list, the order and the compacted layouts and
\* sends these same values; a failed request changes none of them, nor the
\* mode, the pending set or the snapshot
C13_OptimisticSave ==
  [][/\ handleSaveLayout =>
          /\ saveInFlight' = Some([widgets |-> visibleWidgets', order |-> widgetOrder',
                                   layouts |-> widgetLayouts'])
          /\ widgetLayouts' =
               compactLayoutsUtil(SaveSteps(Snapshot, pendingWidgetChanges).layouts,
                                  visibleWidgets')
          /\ ~isResizeMode' /\ pendingWidgetChanges' = <<>> /\ originalState' = Null
     /\ SaveFails =>
          /\ toast' = "Failed to save layout"
          /\ UNCHANGED <<visibleWidgets, widgetOrder, widgetLayouts, isResizeMode,
                         pendingWidgetChanges, originalState, dbRow>>]_vars

\* the only Save has failed: the stored row is still absent, and the
\* visible list is the one Save set, not the default
C13_Witness ==
  /\ toast = "Failed to save layout"
  /\ saveCount = 1
  /\ dbRow = Null /\ ~prefsFetching
  /\ visibleWidgets # defaultVisibleWidgets
  /\ ~isResizeMode
  /\ pendingWidgetChanges = <<>>
  /\ originalState = Null

\* ---------------------------------------------------------------------
\* No retry of a failed save

\* an upsert of user_preferences is sent in this step
NewUpsertSent ==
  \E r \in BagToSet(requests') :
    r.status = "sent" /\ CopiesIn(r, requests') > CopiesIn(r, requests)

ReloadAfterSave == toast = "Dashboard layout saved" /\ QueryResolves

\* C15: after a successful save and the reload it triggers, visibleWidgets
\* and widgetOrder are the lists that Save set and sent, which the row now
\* holds; sanitising and order completion change nothing
C15_SaveRoundTrip ==
  [][ReloadAfterSave =>
       /\ dbRow # Null
       /\ visibleWidgets' = dbRow[1].visible_widgets[1]
       /\ widgetOrder' = dbRow[1].card_order[1]
       /\ LoadedState(dbRow).visible = dbRow[1].visible_widgets[1]
       /\ LoadedState(dbRow).order = dbRow[1].card_order[1]]_vars

\* the first Save, which removed contacts and added deals, succeeded and
\* the row it wrote has been loaded
C15_Witness ==
  /\ saveCount = 1
  /\ saveInFlight = Null
  /\ ~prefsFetching
  /\ dbRow # Null
  /\ dashboardPrefs = dbRow
  /\ dbRow[1].visible_widgets = Some(<<"leads", "deals">>)
  /\ visibleWidgets = <<"leads", "deals">>
  /\ widgetOrder = dbRow[1].card_order[1]
  /\ "deals" \in Range(widgetOrder)

\* ---------------------------------------------------------------------
\* The Escape key

\* C16: in customize mode an Escape key press is a Cancel step: it restores
\* the snapshot, clears the pending set and leaves the mode; out of
\* customize mode it changes no dashboard state
C16_EscapeCancels ==
  [][EscapeKeyDown =>
       IF isResizeMode
       THEN /\ handleCancelCustomize
            /\ originalState # Null
            /\ visibleWidgets' = originalState[1].visible
            /\ widgetOrder' = originalState[1].order
            /\ widgetLayouts' = originalState[1].layouts
            /\ pendingWidgetChanges' = <<>>
            /\ originalState' = Null
            /\ ~isResizeMode'
       ELSE UNCHANGED <<visibleWidgets, widgetOrder, widgetLayouts, pendingWidgetChanges,
                        originalState, isResizeMode, saveInFlight, dbRow, dashboardPrefs,
                        prefsFetching>>]_vars

\* toggles were discarded by an Escape or a Cancel, with no layout change
C16_Witness ==
  /\ toast = "Changes discarded"
  /\ ~isResizeMode
  /\ toggleCount > 0 /\ dragCount = 0
  /\ pendingWidgetChanges = <<>>
  /\ originalState = Null
  /\ atEnter # Null
  /\ visibleWidgets = atEnter[1].visible

\* ---------------------------------------------------------------------
\* Autosave: a change back to the saved value

\* a timer is started in this step
TimerStarted == ~(timers' \subseteq timers)

\* C17: a change of displayPrefs to the last saved value leaves no timer
\* pending and sends no request; a timer is started only with displayPrefs
\* different from the last saved value
C17_RevertCancels ==
  [][/\ (setDisplayPrefs /\ stringifyPrefs(displayPrefs') = lastSavedRef)
          => /\ timers' = {}
             /\ requests' = requests
             /\ ~TimerStarted
     /\ TimerStarted => stringifyPrefs(displayPrefs') # lastSavedRef']_vars

\* a change started a timer and the change back cancelled it: nothing was
\* sent
C17_Witness ==
  /\ changeCount = 2
  /\ unsentChange
  /\ displayPrefs = InitialDisplayPrefs
  /\ lastSavedRef = stringifyPrefs(displayPrefs)
  /\ timers = {}
  /\ upsertCount = 0
  /\ requests = EmptyBag
  /\ mounted

\* ---------------------------------------------------------------------
\* Loading the preferences

\* the preference load effect runs its body in this step
LoadStep == QueryResolves /\ EffectDeps(dbRow) # EffectDeps(dashboardPrefs)

\* a layout_view that is absent, not JSON, or JSON of no object
UnreadableLayoutView(row) == row[1].layout_view.kind \in {"absent", "legacy", "jsonOther"}

\* C18: a row whose layout_view is absent, not JSON or JSON of no object
\* loads with the empty layout, and with the visible list and the order
\* taken from that row
C18_UnreadableLayoutLoads ==
  [][(LoadStep /\ dbRow # Null /\ UnreadableLayoutView(dbRow)) =>
       /\ widgetLayouts' = EmptyLayouts
       /\ visibleWidgets' =
            sanitizeKeys(IF dbRow[1].visible_widgets # Null
                         THEN dbRow[1].visible_widgets[1] ELSE defaultVisibleWidgets)
       /\ \A i \in 1..Len(sanitizeKeys(IF dbRow[1].card_order # Null
                                       THEN dbRow[1].card_order[1] ELSE defaultWidgetKeys)) :
            widgetOrder'[i] = sanitizeKeys(IF dbRow[1].card_order # Null
                                           THEN dbRow[1].card_order[1]
                                           ELSE defaultWidgetKeys)[i]
       /\ dashboardPrefs' = dbRow
       /\ ~isResizeMode']_vars

\* the row with the legacy layout_view has been loaded
C18_Witness ==
  /\ dashboardPrefs # Null
  /\ dashboardPrefs[1].layout_view.kind = "legacy"
  /\ widgetLayouts = EmptyLayouts
  /\ visibleWidgets = <<"contacts", "deals">>
  /\ saveCount = 0 /\ dragCount = 0

\* ---------------------------------------------------------------------
\* Compaction applied twice

\* C19: for inputs with sizes 1 <= w <= 12, h >= 1, compacting the
\* returned layout again, with the same visible keys, returns it unchanged
C19_Idempotent ==
  (packerPc = "returned" /\ InputSizesOK) =>
    compactLayoutsUtil(compacted, argVisibleKeys) = compacted

\* ---------------------------------------------------------------------
\* Customize mode off

\* C20: out of customize mode the pending set is empty and the snapshot is
\* null
C20_OffMeansClean ==
  ~isResizeMode => (pendingWidgetChanges = <<>> /\ originalState = Null)

\* ---------------------------------------------------------------------
\* ProfileSection: the backend row and displayPrefs

\* the section is mounted, no debounce timer is pending, no upsert is under
\* way and the backend has returned no error
ProfileQuiescent == mounted /\ timers = {} /\ requests = EmptyBag /\ ~requestFailed

\* C21: whenever the section is mounted, no timer is pending, no upsert is
\* under way and no request has failed, the backend row holds the current
\* displayPrefs
C21_BackendEqualsPrefs == ProfileQuiescent => backendPrefs = displayPrefs

\* ---------------------------------------------------------------------
\* The state after a preference load

\* the index of the first occurrence of k in keys
FirstIndex(keys, k) == CHOOSE i \in 1..Len(keys) : keys[i] = k /\ \A j \in 1..(i - 1) : keys[j] # k

\* out is raw restricted to the known widget keys, with duplicates removed
\* in first-occurrence order
IsSanitised(raw, out) ==
  /\ NoDup(out)
  /\ Range(out) = Range(raw) \cap WidgetKey
  /\ \A i, j \in 1..Len(out) :
       i < j => FirstIndex(raw, out[i]) < FirstIndex(raw, out[j])

\* the visible list and the order list a row stores, or the defaults
StoredVisible(row) ==
  IF row # Null /\ row[1].visible_widgets # Null
  THEN row[1].visible_widgets[1] ELSE defaultVisibleWidgets

StoredOrder(row) ==
  IF row # Null /\ row[1].card_order # Null
  THEN row[1].card_order[1] ELSE defaultWidgetKeys

\* C22: after a preference load with a signed-in user, customize mode is
\* off, visibleWidgets is the stored (or default) visible list sanitised,
\* widgetOrder is the sanitised stored (or default) order followed by the
\* visible keys missing from it, and widgetLayouts is the compaction of the
\* loaded layouts over that visible list
C22_LoadedState ==
  [][(LoadStep /\ user # "") =>
       /\ ~isResizeMode'
       /\ IsSanitised(StoredVisible(dbRow), visibleWidgets')
       /\ \E base \in SeqsNoDup(WidgetKey) :
            /\ IsSanitised(StoredOrder(dbRow), base)
            /\ widgetOrder' =
                 base \o FilterSeq(visibleWidgets', Range(visibleWidgets') \ Range(base))
       /\ widgetLayouts' = compactLayoutsUtil(parseWidgetLayouts(dbRow), visibleWidgets')]_vars

\* the row of an earlier save has been loaded: its widgets are packed to
\* the top
C22_Witness ==
  /\ user # ""
  /\ dashboardPrefs # Null
  /\ dashboardPrefs[1].layout_view.kind = "jsonObject"
  /\ saveCount = 0 /\ dragCount = 0 /\ toggleCount = 0
  /\ ~isResizeMode
  /\ visibleWidgets = <<"deals", "leads">>
  /\ widgetOrder = <<"deals", "leads", "contacts">>
  /\ widgetLayouts = [k \in {"deals", "leads"} |->
                        IF k = "deals" THEN LayoutRec(0, 0, 6, 2) ELSE LayoutRec(6, 0, 3, 2)]

\* ---------------------------------------------------------------------
\* The widget lists

\* C23: visibleWidgets and widgetOrder hold no key twice and only keys of
\* DEFAULT_WIDGETS, and every visible key is in widgetOrder
C23_ListsWellFormed ==
  /\ NoDup(visibleWidgets)
  /\ NoDup(widgetOrder)
  /\ Range(visibleWidgets) \subseteq WidgetKey
  /\ Range(widgetOrder) \subseteq WidgetKey
  /\ Range(visibleWidgets) \subseteq Range(widgetOrder)

\* a row with a repeated and an unknown key and no card_order was loaded, a
\* widget was added and one removed, and the change was saved
C23_Witness ==
  /\ dashboardPrefs # Null
  /\ dashboardPrefs[1].layout_view.kind = "legacy"
  /\ saveCount = 1
  /\ toggleCount = 2
  /\ ~isResizeMode
  /\ saveInFlight # Null
  /\ visibleWidgets = <<"deals", "leads">>

\* ---------------------------------------------------------------------
\* The layouts and the visible list

\* out has an entry exactly for the visible keys that have an entry in
\* input, each with the w and h of the input
KeysAndSizesKept(input, visible, out) ==
  /\ DOMAIN out = Range(visible) \cap DOMAIN input
  /\ \A k \in DOMAIN out : out[k].w = input[k].w /\ out[k].h = input[k].h

\* every key with an entry in widgetLayouts is visible
LayoutsOnlyForVisible == DOMAIN widgetLayouts \subseteq Range(visibleWidgets)

\* C24: every key with an entry in widgetLayouts is visible, after every
\* load, layout change, Save and Cancel; and where compactLayoutsUtil is
\* applied (by the load, a layout change, Save) it returns an entry exactly
\* for the visible keys that have an input layout, with w and h unchanged
C24_LayoutsOfVisible ==
  /\ []LayoutsOnlyForVisible
  /\ [][/\ LoadStep =>
            KeysAndSizesKept(parseWidgetLayouts(dbRow), visibleWidgets', widgetLayouts')
        /\ handleLayoutChange =>
            \E newLayouts \in DragLayouts(visibleWidgets) :
              KeysAndSizesKept(newLayouts, visibleWidgets, widgetLayouts')
        /\ handleSaveLayout =>
            KeysAndSizesKept(SaveSteps(Snapshot, pendingWidgetChanges).layouts,
                             visibleWidgets', widgetLayouts')]_vars

\* the same for every call of the packer on its own
PackerKeepsKeysAndSizes ==
  packerPc = "returned" => KeysAndSizesKept(argLayouts, argVisibleKeys, compacted)

\* the row that holds the layout of a hidden widget has been loaded: the
\* layout of the hidden widget is dropped, that of the visible one is kept
\* with its size
C24_Witness ==
  /\ dashboardPrefs # Null
  /\ dashboardPrefs[1].layout_view.kind = "object"
  /\ "contacts" \in DOMAIN dashboardPrefs[1].layout_view.layouts
  /\ visibleWidgets = <<"leads">>
  /\ DOMAIN widgetLayouts = {"leads"}
  /\ widgetLayouts["leads"] = LayoutRec(0, 0, 3, 2)
  /\ saveCount = 0 /\ dragCount = 0

\* ---------------------------------------------------------------------
\* One save at a time

\* savePreferencesMutation.isPending: a save request is under way
SavePending == saveInFlight # Null

\* C25: while a save is pending the Save button cannot invoke
\* handleSaveLayout, in customize mode or out of it, so a Save step starts
\* from a state with no request under way
C25_OneSaveInFlight ==
  /\ []((SavePending /\ saveCount < MaxSaves) => ~ENABLED handleSaveLayout)
  /\ [][handleSaveLayout => ~SavePending]_vars

\* a save is pending, customize mode has been entered again and a change is
\* pending
C25_Witness ==
  /\ SavePending
  /\ isResizeMode
  /\ saveCount = 1
  /\ pendingWidgetChanges # <<>>

\* ---------------------------------------------------------------------
\* Clicks inside the widgets

\* the keys renderWidget has a case for, in the order of the switch
RenderedKeys ==
  << "leads", "contacts", "deals", "accountsSummary", "actionItems", "quickActions",
     "myPipeline", "todaysAgenda", "upcomingMeetings", "taskReminders",
     "recentActivities", "leadStatus", "emailStats", "weeklySummary", "followUpsDue" >>

\* the number of widgets on the dashboard in a run of the click model
MaxRendered == 2

\* an element of a widget and its click handler: whether the handler tests
\* isResizeMode, and what it does otherwise (navigate to a path, open a
\* modal, nothing)
Target(widget, element, tests, kind, to) ==
  [widget |-> widget, element |-> element, tests |-> tests, kind |-> kind, to |-> to]

LeadStatuses == {"New", "Attempted", "Follow-up", "Qualified"}

ClickTargets ==
  \* every card has a body; a click on it reaches the onClick of the Card,
  \* if it has one
  {Target(RenderedKeys[i], "card", FALSE, "none", "") :
     i \in {j \in 1..Len(RenderedKeys) :
              RenderedKeys[j] \notin {"contacts", "deals", "accountsSummary", "myPipeline"}}}
  \cup {Target("leads", s, FALSE, "navigate", "/leads?status=" \o s) : s \in LeadStatuses}
  \cup {Target("contacts", "card", TRUE, "navigate", "/contacts"),
        Target("deals", "card", TRUE, "navigate", "/deals"),
        Target("accountsSummary", "card", TRUE, "navigate", "/accounts"),
        Target("quickActions", "Add Lead", TRUE, "modal", "lead"),
        Target("quickActions", "Add Contact", TRUE, "modal", "contact"),
        Target("quickActions", "Add Account", TRUE, "modal", "account"),
        Target("quickActions", "New Meeting", TRUE, "modal", "createMeeting"),
        Target("myPipeline", "card", TRUE, "navigate", "/deals"),
        Target("upcomingMeetings", "View All", TRUE, "navigate", "/meetings"),
        Target("upcomingMeetings", "meeting", TRUE, "modal", "meeting"),
        Target("upcomingMeetings", "empty state action", TRUE, "modal", "createMeeting"),
        Target("taskReminders", "task", TRUE, "modal", "task"),
        Target("taskReminders", "empty state action", TRUE, "modal", "task"),
        Target("recentActivities", "View All", TRUE, "navigate", "/notifications")}
  \cup {Target("leadStatus", s, FALSE, "navigate", "/leads?status=" \o s) : s \in LeadStatuses}

\* the dashboard is shown and no modal covers it
DashboardShown == navigatedTo = Null /\ openModal = Null

\* the dashboard with its preferences loaded and some widgets visible
ClickInit ==
  /\ user = "u1"
  /\ dbRow = Null
  /\ dashboardPrefs = Null
  /\ prefsFetching = FALSE
  /\ saveInFlight = Null
  /\ isResizeMode = FALSE
  /\ pendingWidgetChanges = <<>>
  /\ originalState = Null
  /\ visibleWidgets \in {FilterSeq(RenderedKeys, S) :
                           S \in {T \in SUBSET Range(RenderedKeys) :
                                    Cardinality(T) >= 1 /\ Cardinality(T) <= MaxRendered}}
  /\ widgetOrder = visibleWidgets
  /\ widgetLayouts = EmptyLayouts
  /\ toast = ""
  /\ atEnter = Null
  /\ saveCount = 0
  /\ dragCount = 0
  /\ toggleCount = 0
  /\ navigatedTo = Null
  /\ openModal = Null
  /\ PackerIdle
  /\ ProfileIdle
  /\ FilterIdle

\* a click on an element of a rendered widget runs its handler
ClickInWidget ==
  /\ DashboardShown
  /\ \E t \in ClickTargets :
       /\ t.widget \in Range(visibleWidgets)
       /\ IF t.kind = "none" \/ (t.tests /\ isResizeMode)
          THEN UNCHANGED <<navigatedTo, openModal>>
          ELSE IF t.kind = "navigate"
          THEN navigatedTo' = Some(t.to) /\ UNCHANGED openModal
          ELSE openModal' = Some(t.to) /\ UNCHANGED navigatedTo
  /\ toast' = ""
  /\ UNCHANGED <<user, isResizeMode, pendingWidgetChanges, originalState, visibleWidgets,
                 widgetOrder, widgetLayouts, dashboardPrefs, prefsFetching, saveInFlight,
                 dbRow, atEnter, saveCount, dragCount, toggleCount>>
  /\ UNCHANGED <<packerVars, profileVars, filterVars>>

\* the open modal is closed: onOpenChange(false)
CloseModal ==
  /\ openModal # Null
  /\ openModal' = Null
  /\ toast' = ""
  /\ UNCHANGED <<user, isResizeMode, pendingWidgetChanges, originalState, visibleWidgets,
                 widgetOrder, widgetLayouts, dashboardPrefs, prefsFetching, saveInFlight,
                 dbRow, atEnter, saveCount, dragCount, toggleCount, navigatedTo>>
  /\ UNCHANGED <<packerVars, profileVars, filterVars>>

\* the Customize and the Cancel button of the dashboard that is shown
ClickCustomize == DashboardShown /\ handleEnterCustomizeMode

ClickCancel == DashboardShown /\ handleCancelCustomize

ClickNext ==
  \/ ClickCustomize
  \/ ClickCancel
  \/ ClickInWidget
  \/ CloseModal

SpecClicks == ClickInit /\ [][ClickNext]_vars

\* C26: while customize mode is on, a click inside a rendered widget neither
\* navigates nor opens a modal
C26_ClicksInertInCustomize ==
  [][(ClickInWidget /\ isResizeMode) => UNCHANGED <<navigatedTo, openModal>>]_vars

====
